---- MODULE Spec2Model ----
(***************************************************************************)
(* Agent orchestration core of base_agents.py: the prompt agents, the      *)
(* evaluation-refinement loop (EvaluationAgent.evaluate) and the routing   *)
(* dispatcher (RoutingAgent.route).                                        *)
(*                                                                         *)
(* Texts are TLA+ strings; str.lower, str.startswith and str.split are     *)
(* computed character by character.  The inference backend is the          *)
(* environment: every gateway call nondeterministically returns one of a   *)
(* few payloads or raises.                                                 *)
(***************************************************************************)
EXTENDS Integers, Sequences, FiniteSets, TLC

(***************************************************************************)
(* Bounds of the model.                                                    *)
(***************************************************************************)
MaxInteractions == 3     \* largest max_interactions handed to the constructor
MaxAgents == 3           \* largest registry handed to RoutingAgent
MaxResponds == 3         \* direct respond calls a caller makes on one agent
MaxSharedInteractions == 2   \* largest max_interactions of an orchestrator two callers share
MaxSharedAgents == 2         \* largest registry two callers share

(***************************************************************************)
(* Python values.                                                          *)
(***************************************************************************)
\* Python's None: a value different from every text of the model.  No text
\* operation is ever applied to it: each use is guarded as Python guards it.
None == "<<None>>"

\* str(v) as an f-string renders it
Str(v) == IF v = None THEN "None" ELSE v

UpperCase == "ABCDEFGHIJKLMNOPQRSTUVWXYZ"
LowerCase == "abcdefghijklmnopqrstuvwxyz"

CharAt(s, i) == SubSeq(s, i, i)

UpperLetters == {CharAt(UpperCase, k) : k \in 1..Len(UpperCase)}

\* the lower-case form of one character
LowerChar(c) ==
    IF c \in UpperLetters
    THEN CharAt(LowerCase, CHOOSE k \in 1..Len(UpperCase) : CharAt(UpperCase, k) = c)
    ELSE c

\* str.lower(), character by character from position i on
RECURSIVE lowerFrom(_, _)
lowerFrom(s, i) ==
    IF i > Len(s) THEN ""
    ELSE LowerChar(CharAt(s, i)) \o lowerFrom(s, i + 1)

\* str.lower()
lower(s) == lowerFrom(s, 1)

\* str.startswith(p)
startswith(s, p) == Len(s) >= Len(p) /\ SubSeq(s, 1, Len(p)) = p

IsSpace(c) == c \in {" ", "\n", "\t"}

\* set(s.split()): the set of maximal runs of non-whitespace characters
RECURSIVE splitFrom(_, _, _)
splitFrom(s, i, cur) ==
    IF i > Len(s) THEN (IF cur = "" THEN {} ELSE {cur})
    ELSE IF IsSpace(CharAt(s, i))
         THEN (IF cur = "" THEN {} ELSE {cur}) \cup splitFrom(s, i + 1, "")
         ELSE splitFrom(s, i + 1, cur \o CharAt(s, i))

words(s) == splitFrom(s, 1, "")

(***************************************************************************)
(* The text completion gateway.                                            *)
(***************************************************************************)
\* what a gateway call can raise: requests.post (ConnectionError),
\* raise_for_status (HTTPError), the subscript of the payload (KeyError)
GatewayErrors == {"ConnectionError", "HTTPError", "KeyError"}

Returned(v) == [ok |-> TRUE, out |-> v]
Raised(e) == [ok |-> FALSE, out |-> e]

\* ollama_generate(model, prompt): the outcomes of one call, the backend
\* answering with one of `payloads` in the "response" field, or the call failing
ollama_generate(payloads) ==
    {Returned(v) : v \in payloads} \cup {Raised(e) : e \in GatewayErrors}

\* ollama_chat(model, messages): likewise for message.content
ollama_chat(payloads) ==
    {Returned(v) : v \in payloads} \cup {Raised(e) : e \in GatewayErrors}

\* the JSON bodies of the two requests; a prompt is kept as a one-message body
generate_request(model, prompt) ==
    [op |-> "generate", model |-> model, body |-> <<[role |-> "prompt", content |-> prompt]>>]

chat_request(model, messages) ==
    [op |-> "chat", model |-> model, body |-> messages]

(***************************************************************************)
(* Prompt agents: each variant only builds the request sent to the gateway.*)
(***************************************************************************)
DefaultModel == "llama3.2"

DirectPromptAgent(model) ==
    [kind |-> "Direct", persona |-> None, knowledge |-> None, model |-> model]

AugmentedPromptAgent(persona, model) ==
    [kind |-> "Augmented", persona |-> persona, knowledge |-> None, model |-> model]

KnowledgeAugmentedPromptAgent(persona, knowledge, model) ==
    [kind |-> "Knowledge", persona |-> persona, knowledge |-> knowledge, model |-> model]

RAGKnowledgePromptAgent(persona, knowledge_corpus, model) ==
    [kind |-> "RAG", persona |-> persona, knowledge |-> knowledge_corpus, model |-> model]

\* agent.respond(input): the request the agent sends
respond(agent, input) ==
    CASE agent.kind = "Direct" ->
           generate_request(agent.model, input)
      [] agent.kind = "Augmented" ->
           generate_request(agent.model,
               Str(agent.persona)
               \o " Always begin your answer with: 'Dear students,'. Forget all previous context.\n"
               \o Str(input))
      [] agent.kind = "Knowledge" ->
           generate_request(agent.model,
               "You are " \o Str(agent.persona)
               \o " knowledge-based assistant. Forget all previous context. "
               \o "Use only the following knowledge to answer, do not use your own knowledge: "
               \o Str(agent.knowledge) \o " "
               \o "Answer the prompt based on this knowledge, not your own.\n"
               \o Str(input))
      [] agent.kind = "RAG" ->
           chat_request(agent.model,
               << [role |-> "system",
                   content |-> "You are " \o Str(agent.persona)
                               \o ". Use only the following knowledge to answer: "
                               \o Str(agent.knowledge) \o ". Forget all previous context."],
                  [role |-> "user", content |-> input] >>)

\* the gateway operation a request goes to
gateway(req, payloads) ==
    IF req.op = "chat" THEN ollama_chat(payloads) ELSE ollama_generate(payloads)

(***************************************************************************)
(* The environment: the agents under test and what the backend may say.    *)
(***************************************************************************)
WorkerAgents ==
    { DirectPromptAgent(DefaultModel),
      AugmentedPromptAgent("You are a teacher.", DefaultModel),
      KnowledgeAugmentedPromptAgent("a QA", "Chrome 80%", DefaultModel),
      RAGKnowledgePromptAgent("a QA lead", "Safari 60%", DefaultModel) }

InitialPrompts == {"Write a QA matrix", "List the risks"}

WorkerTexts == {"draft one", "draft two"}

\* what the judge may answer: texts, the empty text and a JSON null
Verdicts ==
    { "Yes", "YES, because it is fine", "yes.", "Yesterday this would fail",
      "No, it is wrong", "Not yes", "", None }

InstructionTexts == {"shorten it"}

(***************************************************************************)
(* State.                                                                  *)
(***************************************************************************)
VARIABLES
    evaluator,   \* the EvaluationAgent's fields
    router,      \* the RoutingAgent's fields
    ev,          \* ev[s]: the frame of evaluate call s (its locals and position)
    rt,          \* rt[s]: the frame of route call s
    backend,     \* the inference backend behind the gateway, and the handlers
    client       \* the calls of respond a caller made on the worker agent directly

vars == <<evaluator, router, ev, rt, backend, client>>

EvalSessions == 1..Len(ev)
RouteSessions == 1..Len(rt)

\* EvaluationAgent.__init__
EvaluationAgent(worker_agent, evaluation_criteria, persona, model, max_interactions) ==
    [worker_agent |-> worker_agent, evaluation_criteria |-> evaluation_criteria,
     persona |-> persona, model |-> model, max_interactions |-> max_interactions]

\* RoutingAgent.__init__
RoutingAgent(agents, model) == [agents |-> agents, model |-> model]

\* what a handler is called with
handler_call(func, arg) ==
    [op |-> "handler", model |-> func, body |-> <<[role |-> "arg", content |-> arg]>>]

\* the live backend: it may answer the same request differently each time
LiveBackend == [deterministic |-> FALSE, says |-> {}, replies |-> {}]

\* a deterministic stub in place of the backend and of the handlers: it
\* answers from the repertoire `says`, and a request it has answered before
\* as it answered it before
StubBackend(says) == [deterministic |-> TRUE, says |-> says, replies |-> {}]

\* the backend may answer request req by outcome o
answers(b, req, o) ==
    b.deterministic =>
        /\ o.out \in b.says
        /\ \A r \in b.replies : r.request = req => r.reply = o

\* the backend after it answered req by o
answered(b, req, o) ==
    IF b.deterministic
    THEN [b EXCEPT !.replies = @ \cup {[request |-> req, reply |-> o]}]
    ELSE b

\* a call of evaluate that has not started; locals not yet bound hold None
EvalIdle ==
    [pc |-> "idle", initial_prompt |-> None, prompt_to_evaluate |-> None,
     final_response |-> None, evaluation |-> None, iterations |-> 0, i |-> 0,
     response_from_worker |-> None, instructions |-> None,
     exit |-> "none", error |-> "none", calls |-> <<>>, result |-> <<>>]

\* one gateway call as the backend saw it
Call(kind, f, req, o) ==
    [kind |-> kind, iter |-> f.iterations, request |-> req, ok |-> o.ok, out |-> o.out]

\* an exception leaving evaluate
raise(f, e) == [f EXCEPT !.pc = "raised", !.error = e]

(***************************************************************************)
(* EvaluationAgent.evaluate, one action per gateway-delimited step.        *)
(***************************************************************************)
\* evaluate(initial_prompt): the locals before the loop
evaluate_entry(f, initial_prompt) ==
    [f EXCEPT !.pc = "for", !.initial_prompt = initial_prompt,
              !.prompt_to_evaluate = initial_prompt,
              !.final_response = None, !.evaluation = None, !.iterations = 0]

\* for_next that runs the body once more than range(max_interactions) allows
for_next_one_more(f, max_interactions) ==
    IF f.i <= max_interactions
    THEN [f EXCEPT !.i = f.i + 1, !.iterations = f.iterations + 1, !.pc = "worker"]
    ELSE [f EXCEPT !.exit = "exhausted", !.pc = "return"]

\* for i in range(self.max_interactions): iterations += 1
for_next(f, max_interactions) ==
    IF f.i < max_interactions
    THEN [f EXCEPT !.i = f.i + 1, !.iterations = f.iterations + 1, !.pc = "worker"]
    ELSE [f EXCEPT !.exit = "exhausted", !.pc = "return"]

\* worker_step that issues the worker call again when it failed
worker_step_retrying(f, req, o) ==
    LET g == [f EXCEPT !.calls = Append(f.calls, Call("worker", f, req, o))]
    IN  IF o.ok
        THEN [g EXCEPT !.response_from_worker = o.out, !.pc = "judge"]
        ELSE [g EXCEPT !.pc = "worker"]

\* response_from_worker = self.worker_agent.respond(prompt_to_evaluate)
worker_step(f, req, o) ==
    LET g == [f EXCEPT !.calls = Append(f.calls, Call("worker", f, req, o))]
    IN  IF o.ok
        THEN [g EXCEPT !.response_from_worker = o.out, !.pc = "judge"]
        ELSE raise(g, o.out)

\* the judge's request
eval_request(self, response_from_worker) ==
    chat_request(self.model,
        << [role |-> "system",
            content |-> "You are " \o Str(self.persona) \o ". Evaluate the following answer."],
           [role |-> "user",
            content |-> "Does the following answer: " \o Str(response_from_worker) \o "\n"
                        \o "Meet this criteria: " \o Str(self.evaluation_criteria) \o "\n"
                        \o "Respond Yes or No, and the reason why it does or doesn't meet the criteria."] >>)

\* judge_step with the gateway's failure caught: evaluate goes on to return
\* what it has so far
judge_step_swallowing(f, req, o) ==
    LET g == [f EXCEPT !.calls = Append(f.calls, Call("judge", f, req, o))]
    IN  IF o.ok
        THEN [g EXCEPT !.evaluation = o.out, !.pc = "decide"]
        ELSE [g EXCEPT !.final_response = f.response_from_worker, !.pc = "return"]

\* evaluation = ollama_chat(self.model, messages)
judge_step(f, req, o) ==
    LET g == [f EXCEPT !.calls = Append(f.calls, Call("judge", f, req, o))]
    IN  IF o.ok
        THEN [g EXCEPT !.evaluation = o.out, !.pc = "decide"]
        ELSE raise(g, o.out)

\* accepts without the lower(): "Yes" is not recognised
accepts_case_sensitive(evaluation) == startswith(evaluation, "yes")

\* evaluation.lower().startswith("yes")
accepts(evaluation) == startswith(lower(evaluation), "yes")

\* decide_step that asks for no instructions in the last iteration of the budget
decide_step_sparing_last(f) ==
    IF f.evaluation = None
    THEN raise(f, "AttributeError")
    ELSE IF accepts(f.evaluation)
         THEN [f EXCEPT !.final_response = f.response_from_worker,
                        !.exit = "break", !.pc = "return"]
         ELSE IF f.i < evaluator.max_interactions
              THEN [f EXCEPT !.pc = "instructions"]
              ELSE [f EXCEPT !.final_response = f.response_from_worker, !.pc = "for"]

\* decide_step that starts the next iteration without asking for instructions
decide_step_skipping_instructions(f) ==
    IF f.evaluation = None
    THEN raise(f, "AttributeError")
    ELSE IF accepts(f.evaluation)
         THEN [f EXCEPT !.final_response = f.response_from_worker,
                        !.exit = "break", !.pc = "return"]
         ELSE [f EXCEPT !.final_response = f.response_from_worker, !.pc = "for"]

\* if evaluation.lower().startswith("yes"): final_response = ...; break
\* None has no attribute lower: the test itself raises
decide_step(f) ==
    IF f.evaluation = None
    THEN raise(f, "AttributeError")
    ELSE IF accepts(f.evaluation)
         THEN [f EXCEPT !.final_response = f.response_from_worker,
                        !.exit = "break", !.pc = "return"]
         ELSE [f EXCEPT !.pc = "instructions"]

\* the request for correction instructions
instruction_request(self, evaluation) ==
    chat_request(self.model,
        << [role |-> "system",
            content |-> "You are " \o Str(self.persona) \o ". Provide correction instructions."],
           [role |-> "user",
            content |-> "Provide instructions to fix an answer based on these reasons why it is incorrect: "
                        \o Str(evaluation)] >>)

\* the worker's next prompt
correction_prompt(initial_prompt, response_from_worker, instructions) ==
    "The original prompt was: " \o Str(initial_prompt) \o "\n"
    \o "The response to that prompt was: " \o Str(response_from_worker) \o "\n"
    \o "It has been evaluated as incorrect.\n"
    \o "Make only these corrections, do not alter content validity: " \o Str(instructions)

\* instructions_step that rebuilds the prompt from the previous rebuilt prompt
\* instead of the initial one
instructions_step_nesting(f, req, o) ==
    LET g == [f EXCEPT !.calls = Append(f.calls, Call("instructions", f, req, o))]
    IN  IF o.ok
        THEN [g EXCEPT !.instructions = o.out,
                       !.prompt_to_evaluate =
                           correction_prompt(f.prompt_to_evaluate, f.response_from_worker, o.out),
                       !.final_response = f.response_from_worker,
                       !.pc = "for"]
        ELSE raise(g, o.out)

\* instructions_step that keeps the first response as final_response
instructions_step_keeping_first(f, req, o) ==
    LET g == [f EXCEPT !.calls = Append(f.calls, Call("instructions", f, req, o))]
    IN  IF o.ok
        THEN [g EXCEPT !.instructions = o.out,
                       !.prompt_to_evaluate =
                           correction_prompt(f.initial_prompt, f.response_from_worker, o.out),
                       !.final_response =
                           IF f.final_response = None THEN f.response_from_worker
                           ELSE f.final_response,
                       !.pc = "for"]
        ELSE raise(g, o.out)

\* the else branch: instructions, the rebuilt prompt, final_response
instructions_step(f, req, o) ==
    LET g == [f EXCEPT !.calls = Append(f.calls, Call("instructions", f, req, o))]
    IN  IF o.ok
        THEN [g EXCEPT !.instructions = o.out,
                       !.prompt_to_evaluate =
                           correction_prompt(f.initial_prompt, f.response_from_worker, o.out),
                       !.final_response = f.response_from_worker,
                       !.pc = "for"]
        ELSE raise(g, o.out)

\* return {"final_response": ..., "evaluation": ..., "iterations": ...}
return_step(f) ==
    [f EXCEPT !.pc = "returned",
              !.result = << [final_response |-> f.final_response,
                             evaluation |-> f.evaluation,
                             iterations |-> f.iterations] >>]

Evaluate(s) ==
    /\ ev[s].pc = "idle"
    /\ \E initial_prompt \in InitialPrompts :
           ev' = [ev EXCEPT ![s] = evaluate_entry(ev[s], initial_prompt)]
    /\ UNCHANGED <<evaluator, router, rt, backend, client>>

ForNext(s) ==
    /\ ev[s].pc = "for"
    /\ ev' = [ev EXCEPT ![s] = for_next(ev[s], evaluator.max_interactions)]
    /\ UNCHANGED <<evaluator, router, rt, backend, client>>

WorkerRespond(s) ==
    /\ ev[s].pc = "worker"
    /\ LET req == respond(evaluator.worker_agent, ev[s].prompt_to_evaluate)
       IN  \E o \in gateway(req, WorkerTexts) :
               /\ answers(backend, req, o)
               /\ ev' = [ev EXCEPT ![s] = worker_step(ev[s], req, o)]
               /\ backend' = answered(backend, req, o)
    /\ UNCHANGED <<evaluator, router, rt, client>>

JudgeCall(s) ==
    /\ ev[s].pc = "judge"
    /\ LET req == eval_request(evaluator, ev[s].response_from_worker)
       IN  \E o \in gateway(req, Verdicts) :
               /\ answers(backend, req, o)
               /\ ev' = [ev EXCEPT ![s] = judge_step(ev[s], req, o)]
               /\ backend' = answered(backend, req, o)
    /\ UNCHANGED <<evaluator, router, rt, client>>

Decide(s) ==
    /\ ev[s].pc = "decide"
    /\ ev' = [ev EXCEPT ![s] = decide_step(ev[s])]
    /\ UNCHANGED <<evaluator, router, rt, backend, client>>

\* the corrected prompt kept where every call of evaluate on this
\* orchestrator finds it, instead of in a local of the call
InstructionsCall_sharing_prompt(s) ==
    /\ ev[s].pc = "instructions"
    /\ LET req == instruction_request(evaluator, ev[s].evaluation)
       IN  \E o \in gateway(req, InstructionTexts) :
               /\ answers(backend, req, o)
               /\ LET g == instructions_step(ev[s], req, o)
                  IN  ev' = [t \in DOMAIN ev |->
                                IF t = s THEN g
                                ELSE [ev[t] EXCEPT !.prompt_to_evaluate = g.prompt_to_evaluate]]
               /\ backend' = answered(backend, req, o)
    /\ UNCHANGED <<evaluator, router, rt, client>>

InstructionsCall(s) ==
    /\ ev[s].pc = "instructions"
    /\ LET req == instruction_request(evaluator, ev[s].evaluation)
       IN  \E o \in gateway(req, InstructionTexts) :
               /\ answers(backend, req, o)
               /\ ev' = [ev EXCEPT ![s] = instructions_step(ev[s], req, o)]
               /\ backend' = answered(backend, req, o)
    /\ UNCHANGED <<evaluator, router, rt, client>>

Return(s) ==
    /\ ev[s].pc = "return"
    /\ ev' = [ev EXCEPT ![s] = return_step(ev[s])]
    /\ UNCHANGED <<evaluator, router, rt, backend, client>>

(***************************************************************************)
(* RoutingAgent.route.                                                     *)
(***************************************************************************)
RegistryEntries ==
    { [name |-> "pets", description |-> "cat dog", func |-> "h1"],
      [name |-> "birds", description |-> "cat bird", func |-> "h2"],
      [name |-> "food", description |-> "Dog  FOOD dog", func |-> "h3"] }

\* the agent lists a RoutingAgent is constructed with
Registries == UNION {[1..n -> RegistryEntries] : n \in 0..MaxAgents}

UserInputs == {"I like cats", "cat and dog", "DOG food", "Cat", "dog Dog\tcat", ""}

HandlerTexts == {"answer A", "answer B"}

\* agent["func"](user_input): a handler returns a text or raises
handler_outcomes ==
    {Returned(v) : v \in HandlerTexts} \cup {Raised(e) : e \in GatewayErrors}

NoAgent == 0      \* best_agent = None; otherwise the position of the entry in self.agents

Fallback == "Sorry, no suitable agent could be selected."

RouteIdle ==
    [pc |-> "idle", user_input |-> None, best_agent |-> NoAgent, best_score |-> 0,
     idx |-> 0, printed |-> <<>>, invoked |-> <<>>, error |-> "none", result |-> <<>>]

\* score without the lower(): words that differ in case do not match
score_case_sensitive(user_input, description) ==
    Cardinality(words(user_input) \cap words(description))

\* len(set(user_input.lower().split()) & set(agent['description'].lower().split()))
score(user_input, description) ==
    Cardinality(words(lower(user_input)) \cap words(lower(description)))

\* route_entry starting from best_score = 0: an entry without a shared word
\* never becomes the leader
route_entry_zero_sentinel(f, user_input) ==
    [f EXCEPT !.pc = "for", !.user_input = user_input,
              !.best_agent = NoAgent, !.best_score = 0, !.idx = 1]

\* best_agent = None; best_score = -1
route_entry(f, user_input) ==
    [f EXCEPT !.pc = "for", !.user_input = user_input,
              !.best_agent = NoAgent, !.best_score = -1, !.idx = 1]

\* route_loop comparing with >= : the last entry with the best score wins
route_loop_last_wins(f, agents) ==
    IF f.idx <= Len(agents)
    THEN LET sc == score(f.user_input, agents[f.idx].description)
         IN  IF sc >= f.best_score
             THEN [f EXCEPT !.best_score = sc, !.best_agent = f.idx, !.idx = f.idx + 1]
             ELSE [f EXCEPT !.idx = f.idx + 1]
    ELSE [f EXCEPT !.pc = "check"]

\* for agent in self.agents: one pass of the body, or the end of the loop
route_loop(f, agents) ==
    IF f.idx <= Len(agents)
    THEN LET sc == score(f.user_input, agents[f.idx].description)
         IN  IF sc > f.best_score
             THEN [f EXCEPT !.best_score = sc, !.best_agent = f.idx, !.idx = f.idx + 1]
             ELSE [f EXCEPT !.idx = f.idx + 1]
    ELSE [f EXCEPT !.pc = "check"]

\* route_check that raises instead of returning the fallback text
route_check_raising(f, agents) ==
    IF f.best_agent = NoAgent
    THEN [f EXCEPT !.pc = "raised", !.error = "NoMatchingAgent"]
    ELSE [f EXCEPT !.pc = "dispatch",
                   !.printed = Append(f.printed,
                                   [name |-> agents[f.best_agent].name,
                                    score |-> f.best_score])]

\* if best_agent is None: return the fallback; else print the decision
route_check(f, agents) ==
    IF f.best_agent = NoAgent
    THEN [f EXCEPT !.pc = "returned", !.result = <<Fallback>>]
    ELSE [f EXCEPT !.pc = "dispatch",
                   !.printed = Append(f.printed,
                                   [name |-> agents[f.best_agent].name,
                                    score |-> f.best_score])]

\* dispatch_step handing the handler the lower-cased input
dispatch_step_lowercased(f, agents, o) ==
    LET g == [f EXCEPT !.invoked = Append(f.invoked,
                           [func |-> agents[f.best_agent].func, arg |-> lower(f.user_input),
                            ok |-> o.ok, out |-> o.out])]
    IN  IF o.ok
        THEN [g EXCEPT !.pc = "returned", !.result = <<o.out>>]
        ELSE [g EXCEPT !.pc = "raised", !.error = o.out]

\* return best_agent["func"](user_input)
dispatch_step(f, agents, o) ==
    LET g == [f EXCEPT !.invoked = Append(f.invoked,
                           [func |-> agents[f.best_agent].func, arg |-> f.user_input,
                            ok |-> o.ok, out |-> o.out])]
    IN  IF o.ok
        THEN [g EXCEPT !.pc = "returned", !.result = <<o.out>>]
        ELSE [g EXCEPT !.pc = "raised", !.error = o.out]

Route(s) ==
    /\ rt[s].pc = "idle"
    /\ \E user_input \in UserInputs :
           rt' = [rt EXCEPT ![s] = route_entry(rt[s], user_input)]
    /\ UNCHANGED <<evaluator, router, ev, backend, client>>

RouteLoop(s) ==
    /\ rt[s].pc = "for"
    /\ rt' = [rt EXCEPT ![s] = route_loop(rt[s], router.agents)]
    /\ UNCHANGED <<evaluator, router, ev, backend, client>>

\* a route that moves the entry it selected to the front of self.agents
RouteCheck_promoting(s) ==
    /\ rt[s].pc = "check"
    /\ LET g == route_check(rt[s], router.agents)
           b == rt[s].best_agent
       IN  IF b = NoAgent
           THEN rt' = [rt EXCEPT ![s] = g] /\ router' = router
           ELSE /\ rt' = [rt EXCEPT ![s] = [g EXCEPT !.best_agent = 1]]
                /\ router' = [router EXCEPT !.agents =
                       <<router.agents[b]>>
                       \o SubSeq(router.agents, 1, b - 1)
                       \o SubSeq(router.agents, b + 1, Len(router.agents))]
    /\ UNCHANGED <<evaluator, ev, backend, client>>

RouteCheck(s) ==
    /\ rt[s].pc = "check"
    /\ rt' = [rt EXCEPT ![s] = route_check(rt[s], router.agents)]
    /\ UNCHANGED <<evaluator, router, ev, backend, client>>

RouteDispatch(s) ==
    /\ rt[s].pc = "dispatch"
    /\ LET call == handler_call(router.agents[rt[s].best_agent].func, rt[s].user_input)
       IN  \E o \in handler_outcomes :
               /\ answers(backend, call, o)
               /\ rt' = [rt EXCEPT ![s] = dispatch_step(rt[s], router.agents, o)]
               /\ backend' = answered(backend, call, o)
    /\ UNCHANGED <<evaluator, router, ev, client>>

(***************************************************************************)
(* A caller using an agent directly: agent.respond(input).                 *)
(***************************************************************************)
AgentInputs == {"What is the capital of France?", "What is 2 + 2?"}

\* the repertoire of the stub the agents are exercised against
StubSays == {"draft one", "draft two", "Yes", "No, it is wrong", "shorten it",
             "answer A", "ConnectionError"}

\* a respond whose agent keeps what it was asked
AgentRespond_remembering ==
    /\ Len(client) < MaxResponds
    /\ \E input \in AgentInputs :
           LET req == respond(evaluator.worker_agent, input)
           IN  \E o \in gateway(req, WorkerTexts) :
                   /\ answers(backend, req, o)
                   /\ client' = Append(client, [input |-> input, request |-> req,
                                                ok |-> o.ok, out |-> o.out])
                   /\ backend' = answered(backend, req, o)
                   /\ evaluator' = [evaluator EXCEPT
                          !.worker_agent.knowledge = Str(@) \o " " \o input]
    /\ UNCHANGED <<router, ev, rt>>

\* respond: build the request from the agent's fields and the input, send it,
\* hand back what the gateway gave; nothing of the agent is assigned
AgentRespond ==
    /\ Len(client) < MaxResponds
    /\ \E input \in AgentInputs :
           LET req == respond(evaluator.worker_agent, input)
           IN  \E o \in gateway(req, WorkerTexts) :
                   /\ answers(backend, req, o)
                   /\ client' = Append(client, [input |-> input, request |-> req,
                                                ok |-> o.ok, out |-> o.out])
                   /\ backend' = answered(backend, req, o)
    /\ UNCHANGED <<evaluator, router, ev, rt>>

(***************************************************************************)
(* The system: one orchestrator is constructed and called once.            *)
(***************************************************************************)
DefaultMaxInteractions == 3

DefaultEvaluator ==
    EvaluationAgent(DirectPromptAgent(DefaultModel), "be concise", "Evaluator",
                    DefaultModel, DefaultMaxInteractions)

\* an EvaluationAgent over any worker, with any iteration budget the
\* constructor takes (it checks nothing, so 0 and negative budgets too)
InitEvaluate ==
    /\ \E w \in WorkerAgents, n \in (0 - 1)..MaxInteractions :
           evaluator = EvaluationAgent(w, "be concise", "Evaluator", DefaultModel, n)
    /\ router = RoutingAgent(<<>>, DefaultModel)
    /\ ev = <<EvalIdle>>
    /\ rt = <<>>
    /\ backend = LiveBackend
    /\ client = <<>>

InitRoute ==
    /\ evaluator = DefaultEvaluator
    /\ \E agents \in Registries : router = RoutingAgent(agents, DefaultModel)
    /\ ev = <<>>
    /\ rt = <<RouteIdle>>
    /\ backend = LiveBackend
    /\ client = <<>>

\* one agent of any variant, called directly, against a deterministic stub
InitAgents ==
    /\ \E w \in WorkerAgents :
           evaluator = EvaluationAgent(w, "be concise", "Evaluator", DefaultModel,
                                       DefaultMaxInteractions)
    /\ router = RoutingAgent(<<>>, DefaultModel)
    /\ ev = <<>>
    /\ rt = <<>>
    /\ backend = StubBackend(StubSays)
    /\ client = <<>>

\* two callers share one orchestrator, or one router, against a deterministic
\* stub: two calls of evaluate, or two calls of route, are in progress at once
InitConcurrent ==
    /\ backend = StubBackend(StubSays)
    /\ client = <<>>
    /\ \/ /\ \E w \in WorkerAgents, n \in 1..MaxSharedInteractions :
                 evaluator = EvaluationAgent(w, "be concise", "Evaluator", DefaultModel, n)
          /\ router = RoutingAgent(<<>>, DefaultModel)
          /\ ev = <<EvalIdle, EvalIdle>>
          /\ rt = <<>>
       \/ /\ evaluator = DefaultEvaluator
          /\ \E agents \in UNION {[1..n -> RegistryEntries] : n \in 0..MaxSharedAgents} :
                 router = RoutingAgent(agents, DefaultModel)
          /\ ev = <<>>
          /\ rt = <<RouteIdle, RouteIdle>>

Init == InitEvaluate \/ InitRoute

NextEvaluate ==
    \/ \E s \in EvalSessions : Evaluate(s)
    \/ \E s \in EvalSessions : ForNext(s)
    \/ \E s \in EvalSessions : WorkerRespond(s)
    \/ \E s \in EvalSessions : JudgeCall(s)
    \/ \E s \in EvalSessions : Decide(s)
    \/ \E s \in EvalSessions : InstructionsCall(s)
    \/ \E s \in EvalSessions : Return(s)

NextRoute ==
    \/ \E s \in RouteSessions : Route(s)
    \/ \E s \in RouteSessions : RouteLoop(s)
    \/ \E s \in RouteSessions : RouteCheck(s)
    \/ \E s \in RouteSessions : RouteDispatch(s)

Next == NextEvaluate \/ NextRoute

\* either orchestrator
Spec == Init /\ [][Next]_vars

\* an EvaluationAgent and one call of evaluate
SpecEvaluate == InitEvaluate /\ [][NextEvaluate]_vars

\* a RoutingAgent and one call of route
SpecRoute == InitRoute /\ [][NextRoute]_vars

\* the statements of the two calls interleave in any order
SpecConcurrent == InitConcurrent /\ [][Next]_vars

NextAgents == AgentRespond

\* only direct calls of respond on one agent
SpecAgents == InitAgents /\ [][NextAgents]_vars

\* evaluate is sequential code: once a gateway call has returned or failed,
\* the next statement runs
SpecEvaluateFair == SpecEvaluate /\ WF_vars(NextEvaluate)

(***************************************************************************)
(* Properties of EvaluationAgent.evaluate.                                 *)
(***************************************************************************)
\* the gateway calls of one kind that evaluate has made, as positions of calls
CallsOf(f, kind) == {j \in 1..Len(f.calls) : f.calls[j].kind = kind}

\* what the worker answered in iteration k
WorkerOutput(f, k) ==
    LET j == CHOOSE j \in CallsOf(f, "worker") : f.calls[j].iter = k /\ f.calls[j].ok
    IN  f.calls[j].out

\* the verdict the judge gave in iteration k
VerdictOf(f, k) ==
    LET j == CHOOSE j \in CallsOf(f, "judge") : f.calls[j].iter = k /\ f.calls[j].ok
    IN  f.calls[j].out

\* a verdict text that, ignoring case, starts with the characters y, e, s
YesVerdict(v) ==
    /\ v # None
    /\ Len(v) >= 3
    /\ LowerChar(CharAt(v, 1)) = "y"
    /\ LowerChar(CharAt(v, 2)) = "e"
    /\ LowerChar(CharAt(v, 3)) = "s"

\* the positions of the verdicts of f that start with "yes"
YesCalls(f) ==
    {j \in CallsOf(f, "judge") : f.calls[j].ok /\ YesVerdict(f.calls[j].out)}

\* C1: the first verdict that starts with "yes" ends the loop: no gateway call
\* follows it, and evaluate returns that iteration's number, the worker's
\* response of that iteration and that verdict.
C1_AcceptStopsLoop ==
    \A s \in EvalSessions :
        LET f == ev[s] IN
        \A j \in YesCalls(f) :
            /\ j = Len(f.calls)
            /\ f.pc \in {"decide", "return", "returned"}
            /\ f.pc \in {"return", "returned"} => f.exit = "break"
            /\ f.pc = "returned" =>
                   f.result = << [final_response |-> WorkerOutput(f, f.calls[j].iter),
                                  evaluation |-> f.calls[j].out,
                                  iterations |-> f.calls[j].iter] >>

\* an acceptance in iteration 2 of 3, and one in iteration 1 on the verdict "Yes"
C1_Witness ==
    \E s \in EvalSessions :
        /\ ev[s].pc = "returned" /\ ev[s].exit = "break"
        /\ evaluator.max_interactions = 3
        /\ ev[s].result[1].iterations = 2
        /\ YesCalls(ev[s]) # {}

\* C2: with N >= 1 and no verdict starting with "yes", evaluate returns after
\* N iterations with the worker's output and the verdict of iteration N.
C2_ExhaustedReturnsLast ==
    \A s \in EvalSessions :
        LET f == ev[s]
            N == evaluator.max_interactions
        IN  (f.pc = "returned" /\ N >= 1 /\ YesCalls(f) = {}) =>
                /\ f.exit = "exhausted"
                /\ f.result = << [final_response |-> WorkerOutput(f, N),
                                  evaluation |-> VerdictOf(f, N),
                                  iterations |-> N] >>

\* three iterations without acceptance, the third output unlike the first
C2_Witness ==
    \E s \in EvalSessions :
        /\ ev[s].pc = "returned" /\ ev[s].exit = "exhausted"
        /\ evaluator.max_interactions = 3
        /\ YesCalls(ev[s]) = {}
        /\ WorkerOutput(ev[s], 3) # WorkerOutput(ev[s], 1)
        /\ ev[s].result[1].final_response = WorkerOutput(ev[s], 3)

\* C5: a failed judge call ends evaluate with the gateway's error and without
\* any result; nothing is called after it.
C5_JudgeFailureAborts ==
    \A s \in EvalSessions :
        LET f == ev[s] IN
        \A j \in CallsOf(f, "judge") :
            ~f.calls[j].ok =>
                /\ j = Len(f.calls)
                /\ f.pc = "raised"
                /\ f.error = f.calls[j].out
                /\ f.result = <<>>

\* the judge call of iteration 2 of 3 failed
C5_Witness ==
    \E s \in EvalSessions :
        /\ evaluator.max_interactions = 3
        /\ ev[s].pc = "raised"
        /\ \E j \in CallsOf(ev[s], "judge") :
               /\ ~ev[s].calls[j].ok /\ ev[s].calls[j].iter = 2
               /\ ev[s].error = ev[s].calls[j].out

LettersAndDigits == LowerCase \o "0123456789"

IsWordChar(c) == \E k \in 1..Len(LettersAndDigits) : CharAt(LettersAndDigits, k) = c

\* the verdict's first word is "yes" in any case: y, e, s and then no letter or digit
TokenYes(v) ==
    /\ YesVerdict(v)
    /\ Len(v) = 3 \/ ~IsWordChar(LowerChar(CharAt(v, 4)))

\* C6: right after the decision, the loop has accepted exactly when the
\* verdict starts with the token "yes".
C6_AcceptIffTokenYes ==
    \A s \in EvalSessions :
        LET f == ev[s] IN
        /\ (f.pc = "return" /\ f.exit = "break") => TokenYes(f.evaluation)
        /\ f.pc = "instructions" => ~TokenYes(f.evaluation)

\* C7: with N = 1 there is one worker call, one judge call and no request
\* for correction instructions.
C7_NoCorrectionWhenN1 ==
    \A s \in EvalSessions :
        LET f == ev[s] IN
        evaluator.max_interactions = 1 =>
            /\ CallsOf(f, "instructions") = {}
            /\ Cardinality(CallsOf(f, "worker")) <= 1
            /\ Cardinality(CallsOf(f, "judge")) <= 1
            /\ f.pc = "returned" =>
                   /\ Cardinality(CallsOf(f, "worker")) = 1
                   /\ Cardinality(CallsOf(f, "judge")) = 1

\* C8: every result has 1 <= iterations <= N, a final_response the worker
\* produced and an evaluation the judge produced, neither of them None.
C8_OutputContract ==
    \A s \in EvalSessions :
        LET f == ev[s] IN
        f.pc = "returned" =>
            LET r == f.result[1] IN
            /\ r.iterations >= 1
            /\ r.iterations <= evaluator.max_interactions
            /\ r.final_response # None
            /\ \E j \in CallsOf(f, "worker") : f.calls[j].ok /\ f.calls[j].out = r.final_response
            /\ r.evaluation # None
            /\ \E j \in CallsOf(f, "judge") : f.calls[j].ok /\ f.calls[j].out = r.evaluation

\* C9: once the judge has answered with an empty or a null verdict, the
\* acceptance test does not raise: evaluate goes on to the correction step.
C9_EmptyVerdictNoCrash ==
    \A s \in EvalSessions :
        LET f == ev[s]
            n == Len(f.calls)
        IN  (/\ n > 0
             /\ f.calls[n].kind = "judge" /\ f.calls[n].ok
             /\ f.calls[n].out \in {"", None}
             /\ f.pc # "decide") =>
                f.pc = "instructions"

(***************************************************************************)
(* Properties of RoutingAgent.route.                                       *)
(***************************************************************************)
\* the largest score an entry of the registry has for an input
MaxScore(user_input, agents) ==
    LET S == {score(user_input, agents[k].description) : k \in 1..Len(agents)}
    IN  CHOOSE m \in S : \A x \in S : x <= m

\* the earliest entry that has the largest score
FirstBest(user_input, agents) ==
    LET best == MaxScore(user_input, agents)
        B == {k \in 1..Len(agents) : score(user_input, agents[k].description) = best}
    IN  CHOOSE k \in B : \A m \in B : k <= m

LoopDone(f) == f.pc \in {"check", "dispatch", "returned", "raised"}

\* C3: over a non-empty registry the entry selected, and the handler called,
\* is the earliest entry with the maximum score.
C3_FirstMaxWins ==
    \A s \in RouteSessions :
        LET f == rt[s]
            agents == router.agents
        IN  (LoopDone(f) /\ Len(agents) > 0) =>
                /\ f.best_agent = FirstBest(f.user_input, agents)
                /\ f.best_score = MaxScore(f.user_input, agents)
                /\ \A k \in 1..Len(f.invoked) :
                       f.invoked[k].func = agents[FirstBest(f.user_input, agents)].func

\* two different entries tie for the best score, with a positive score, and
\* the handler of the earlier one has been called
C3_Witness ==
    \E s \in RouteSessions :
        LET f == rt[s]
            agents == router.agents
        IN  /\ f.pc = "returned" /\ Len(f.invoked) = 1
            /\ \E k, m \in 1..Len(agents) :
                   /\ k < m /\ agents[k].func # agents[m].func
                   /\ k = FirstBest(f.user_input, agents)
                   /\ score(f.user_input, agents[m].description) = f.best_score
                   /\ f.best_score > 0
                   /\ f.invoked[1].func = agents[k].func

\* C4: over an empty registry route returns the fallback text, raises nothing
\* and calls no handler.
C4_EmptyRegistryFallback ==
    \A s \in RouteSessions :
        LET f == rt[s] IN
        Len(router.agents) = 0 =>
            /\ f.invoked = <<>>
            /\ f.pc # "raised" /\ f.pc # "dispatch"
            /\ f.error = "none"
            /\ f.pc = "returned" => f.result = <<Fallback>>

C4_Witness ==
    \E s \in RouteSessions :
        /\ Len(router.agents) = 0
        /\ rt[s].pc = "returned"
        /\ rt[s].result = <<"Sorry, no suitable agent could be selected.">>

\* C10: over a non-empty registry route calls one handler, the selected
\* entry's, once, with the input as received, and returns what it returned.
C10_DispatchVerbatim ==
    \A s \in RouteSessions :
        LET f == rt[s]
            agents == router.agents
        IN  Len(agents) > 0 =>
                /\ Len(f.invoked) <= 1
                /\ f.pc \in {"returned", "raised"} =>
                       /\ Len(f.invoked) = 1
                       /\ f.invoked[1].func = agents[FirstBest(f.user_input, agents)].func
                       /\ f.invoked[1].arg = f.user_input
                       /\ f.pc = "returned" =>
                              f.invoked[1].ok /\ f.result = <<f.invoked[1].out>>
                       /\ f.pc = "raised" =>
                              ~f.invoked[1].ok /\ f.error = f.invoked[1].out

\* a mixed-case input dispatched over a registry of several entries
C10_Witness ==
    \E s \in RouteSessions :
        /\ Len(router.agents) >= 2
        /\ rt[s].pc = "returned"
        /\ rt[s].user_input = "DOG food"
        /\ rt[s].invoked[1].arg = "DOG food"
        /\ rt[s].result = <<rt[s].invoked[1].out>>

\* C11: over a non-empty registry route always dispatches, also when no entry
\* shares a word with the input; it returns the fallback text without calling
\* a handler only over an empty registry.
C11_FallbackOnlyWhenEmpty ==
    \A s \in RouteSessions :
        LET f == rt[s]
            agents == router.agents
        IN  /\ (Len(agents) > 0 /\ LoopDone(f)) =>
                   /\ f.best_agent # NoAgent
                   /\ f.pc # "check" => Len(f.printed) = 1
                   /\ f.pc \in {"returned", "raised"} => Len(f.invoked) = 1
            /\ (f.pc = "returned" /\ f.invoked = <<>>) =>
                   Len(agents) = 0 /\ f.result = <<Fallback>>

\* a dispatch over a registry none of whose entries shares a word with the input
C11_Witness ==
    \E s \in RouteSessions :
        /\ Len(router.agents) >= 2
        /\ rt[s].pc = "returned"
        /\ rt[s].best_score = 0
        /\ Len(rt[s].invoked) = 1
        /\ rt[s].result = <<rt[s].invoked[1].out>>

(***************************************************************************)
(* Failures, order and number of the gateway calls.                        *)
(***************************************************************************)
\* C13: a gateway call that fails during evaluate, or a handler that fails
\* during route, is the last call of that invocation, which ends with that
\* very error and without a result.
C13_NoRetry ==
    /\ \A s \in EvalSessions :
           LET f == ev[s] IN
           \A j \in 1..Len(f.calls) :
               ~f.calls[j].ok =>
                   /\ j = Len(f.calls)
                   /\ f.pc = "raised"
                   /\ f.error = f.calls[j].out
                   /\ f.result = <<>>
    /\ \A s \in RouteSessions :
           LET f == rt[s] IN
           \A j \in 1..Len(f.invoked) :
               ~f.invoked[j].ok =>
                   /\ j = Len(f.invoked)
                   /\ f.pc = "raised"
                   /\ f.error = f.invoked[j].out
                   /\ f.result = <<>>

\* the worker call of iteration 2 failed after a complete first iteration
C13_Witness ==
    \E s \in EvalSessions :
        LET f == ev[s]
            n == Len(f.calls)
        IN  /\ f.pc = "raised"
            /\ n = 4
            /\ f.calls[n].kind = "worker" /\ ~f.calls[n].ok
            /\ f.error = f.calls[n].out

\* the order of the gateway calls within one iteration
CallOrder == <<"worker", "judge", "instructions">>

\* C15: the gateway calls of one evaluate are made in the order worker_1,
\* judge_1, instructions_1, worker_2, ...: each call is made only after every
\* earlier one has returned its text.
C15_StrictSequence ==
    \A s \in EvalSessions :
        LET f == ev[s] IN
        \A j \in 1..Len(f.calls) :
            /\ f.calls[j].kind = CallOrder[((j - 1) % 3) + 1]
            /\ f.calls[j].iter = ((j - 1) \div 3) + 1
            /\ j < Len(f.calls) => f.calls[j].ok

\* the worker call of iteration 3 has been made
C15_Witness ==
    \E s \in EvalSessions :
        /\ Len(ev[s].calls) >= 7
        /\ ev[s].calls[7].kind = "worker" /\ ev[s].calls[7].iter = 3
        /\ ev[s].calls[5].kind = "judge" /\ ev[s].calls[6].kind = "instructions"

\* the instructions the judge gave in iteration k
InstructionsOf(f, k) ==
    LET j == CHOOSE j \in CallsOf(f, "instructions") : f.calls[j].iter = k /\ f.calls[j].ok
    IN  f.calls[j].out

\* the prompt the worker is to get in iteration k: the initial request in
\* iteration 1, afterwards the initial request with the response and the
\* instructions of iteration k - 1
ThreadedPrompt(f, k) ==
    IF k = 1
    THEN f.initial_prompt
    ELSE "The original prompt was: " \o f.initial_prompt
         \o "\nThe response to that prompt was: " \o WorkerOutput(f, k - 1)
         \o "\nIt has been evaluated as incorrect."
         \o "\nMake only these corrections, do not alter content validity: "
         \o InstructionsOf(f, k - 1)

\* C16: the worker's request of iteration k is made from the threaded prompt
\* of iteration k, and the instructions of iteration k are asked for with the
\* verdict of iteration k.
C16_PromptThreading ==
    \A s \in EvalSessions :
        LET f == ev[s] IN
        /\ \A j \in CallsOf(f, "worker") :
               f.calls[j].request =
                   respond(evaluator.worker_agent, ThreadedPrompt(f, f.calls[j].iter))
        /\ f.pc = "worker" => f.prompt_to_evaluate = ThreadedPrompt(f, f.iterations)
        /\ \A j \in CallsOf(f, "instructions") :
               f.calls[j].request.body[2].content =
                   "Provide instructions to fix an answer based on these reasons why it is incorrect: "
                   \o VerdictOf(f, f.calls[j].iter)

\* a third worker call, after two different responses
C16_Witness ==
    \E s \in EvalSessions :
        LET f == ev[s] IN
        /\ \E j \in CallsOf(f, "worker") : f.calls[j].iter = 3
        /\ WorkerOutput(f, 1) # WorkerOutput(f, 2)
        /\ f.pc = "returned"

\* the number of iterations range(N) allows: N, and none when N <= 0
Budget == IF evaluator.max_interactions > 0 THEN evaluator.max_interactions ELSE 0

Terminal(f) == f.pc \in {"returned", "raised"}

\* C17: every evaluate call ends, by a return or by a raised failure, and
\* never makes more worker calls, judge calls or iterations than its budget.
C17_Terminates ==
    /\ [](\A s \in EvalSessions :
              /\ ev[s].iterations <= Budget
              /\ Cardinality(CallsOf(ev[s], "worker")) <= Budget
              /\ Cardinality(CallsOf(ev[s], "judge")) <= Budget)
    /\ <>(\A s \in EvalSessions : Terminal(ev[s]))

\* an evaluate that used its whole budget of 3 and returned
C17_Witness ==
    \E s \in EvalSessions :
        /\ ev[s].pc = "returned" /\ ev[s].exit = "exhausted"
        /\ evaluator.max_interactions = 3
        /\ Cardinality(CallsOf(ev[s], "worker")) = 3
        /\ Cardinality(CallsOf(ev[s], "judge")) = 3

(***************************************************************************)
(* The routing score.                                                      *)
(***************************************************************************)
\* the words of a text: its maximal runs of characters without whitespace,
\* in lower case
WordsOf(t) ==
    LET l == lower(t)
        n == Len(l)
    IN  { SubSeq(l, i, j) : <<i, j>> \in
            { p \in (1..n) \X (1..n) :
                /\ p[1] <= p[2]
                /\ \A k \in p[1]..p[2] : ~IsSpace(CharAt(l, k))
                /\ p[1] = 1 \/ IsSpace(CharAt(l, p[1] - 1))
                /\ p[2] = n \/ IsSpace(CharAt(l, p[2] + 1)) } }

\* the number of distinct words two texts share
WordOverlap(a, b) == Cardinality({w \in WordsOf(a) : w \in WordsOf(b)})

\* C18: the score of each entry is the number of distinct lower-cased words
\* its description shares with the input, and the score kept and reported
\* with the decision is the largest of them.
C18_ScoreIsWordOverlap ==
    \A s \in RouteSessions :
        LET f == rt[s]
            agents == router.agents
            overlaps == {WordOverlap(f.user_input, agents[k].description) : k \in 1..Len(agents)}
        IN  f.pc # "idle" =>
                /\ \A k \in 1..Len(agents) :
                       score(f.user_input, agents[k].description)
                           = WordOverlap(f.user_input, agents[k].description)
                /\ (LoopDone(f) /\ Len(agents) > 0) =>
                       /\ f.best_score \in overlaps
                       /\ \A x \in overlaps : x <= f.best_score
                       /\ \A k \in 1..Len(f.printed) : f.printed[k].score = f.best_score

\* a repeated, differently cased shared word counted once; "cats" is not "cat"
C18_Witness ==
    \E s \in RouteSessions :
        LET f == rt[s]
            agents == router.agents
        IN  /\ Len(f.printed) = 1
            /\ f.user_input = "dog Dog\tcat"
            /\ \E k \in 1..Len(agents) :
                   /\ agents[k].description = "Dog  FOOD dog"
                   /\ score(f.user_input, agents[k].description) = 1
                   /\ f.best_score = 1
            /\ score("I like cats", "cat dog") = 0

\* how many gateway calls of a kind evaluate has made
Count(f, kind) == Cardinality(CallsOf(f, kind))

\* C20: an evaluate that returns after accepting in iteration k has made k
\* worker calls, k judge calls and k - 1 instructions calls; one that returns
\* with its budget of N used up has made N calls of each kind, the
\* instructions call of iteration N being the last call of all (no worker
\* call follows it).
C20_CallCounts ==
    \A s \in EvalSessions :
        LET f == ev[s]
            n == Len(f.calls)
        IN  f.pc = "returned" =>
                /\ f.exit = "break" =>
                       /\ Count(f, "worker") = f.iterations
                       /\ Count(f, "judge") = f.iterations
                       /\ Count(f, "instructions") = f.iterations - 1
                /\ f.exit = "exhausted" =>
                       /\ f.iterations = Budget
                       /\ Count(f, "worker") = Budget
                       /\ Count(f, "judge") = Budget
                       /\ Count(f, "instructions") = Budget
                       /\ Budget > 0 =>
                              /\ f.calls[n].kind = "instructions"
                              /\ f.calls[n].iter = Budget
                              /\ f.calls[n].out = f.instructions

\* a budget of 2 used up: two calls of each kind, the instructions last
C20_Witness ==
    \E s \in EvalSessions :
        /\ ev[s].pc = "returned" /\ ev[s].exit = "exhausted"
        /\ evaluator.max_interactions = 2
        /\ Count(ev[s], "worker") = 2
        /\ Count(ev[s], "instructions") = 2
        /\ ev[s].calls[Len(ev[s].calls)].kind = "instructions"

(***************************************************************************)
(* C12: every agent variant is stateless. respond never changes the        *)
(* agent's construction-time fields, and two respond calls on the same     *)
(* agent with the same input send the identical request both times, so     *)
(* against a deterministic gateway they return the identical output,       *)
(* whatever respond calls were made in between.                            *)
(***************************************************************************)
C12_AgentsStateless ==
    /\ [][evaluator'.worker_agent = evaluator.worker_agent]_vars
    /\ [](\A j, k \in 1..Len(client) :
              client[j].input = client[k].input =>
                  /\ client[j].request = client[k].request
                  /\ client[j].ok = client[k].ok
                  /\ client[j].out = client[k].out)

\* the same input asked twice with another input asked in between
C12_Witness ==
    /\ Len(client) = 3
    /\ client[1].input = client[3].input
    /\ client[2].input # client[1].input
    /\ client[1].ok
    /\ evaluator.worker_agent.kind = "Knowledge"

(***************************************************************************)
(* A call run alone against the stub as it has answered so far: each       *)
(* statement in turn, a gateway or handler call taking the answer the stub *)
(* gave to that request; the run waits where the stub was not asked yet.   *)
(***************************************************************************)
Known(req) == \E r \in backend.replies : r.request = req

Reply(req) == (CHOOSE r \in backend.replies : r.request = req).reply

evaluate_alone(f) ==
    CASE f.pc = "for" -> for_next(f, evaluator.max_interactions)
      [] f.pc = "worker" ->
           LET req == respond(evaluator.worker_agent, f.prompt_to_evaluate)
           IN  IF Known(req) THEN worker_step(f, req, Reply(req)) ELSE f
      [] f.pc = "judge" ->
           LET req == eval_request(evaluator, f.response_from_worker)
           IN  IF Known(req) THEN judge_step(f, req, Reply(req)) ELSE f
      [] f.pc = "decide" -> decide_step(f)
      [] f.pc = "instructions" ->
           LET req == instruction_request(evaluator, f.evaluation)
           IN  IF Known(req) THEN instructions_step(f, req, Reply(req)) ELSE f
      [] f.pc = "return" -> return_step(f)
      [] OTHER -> f

RECURSIVE EvaluateAloneReaches(_, _)
EvaluateAloneReaches(f, target) ==
    \/ f = target
    \/ /\ evaluate_alone(f) # f
       /\ EvaluateAloneReaches(evaluate_alone(f), target)

route_alone(f) ==
    CASE f.pc = "for" -> route_loop(f, router.agents)
      [] f.pc = "check" -> route_check(f, router.agents)
      [] f.pc = "dispatch" ->
           LET call == handler_call(router.agents[f.best_agent].func, f.user_input)
           IN  IF Known(call) THEN dispatch_step(f, router.agents, Reply(call)) ELSE f
      [] OTHER -> f

RECURSIVE RouteAloneReaches(_, _)
RouteAloneReaches(f, target) ==
    \/ f = target
    \/ /\ route_alone(f) # f
       /\ RouteAloneReaches(route_alone(f), target)

(***************************************************************************)
(* C14: two evaluate calls on one orchestrator (or two route calls on one  *)
(* router), their statements interleaved in any order, against a           *)
(* deterministic gateway: at every moment each call is exactly where the   *)
(* same call run alone would be, with the same locals and, once it has     *)
(* returned, the same result; so neither reads or writes what the other    *)
(* wrote.                                                                  *)
(***************************************************************************)
C14_ConcurrentReuse ==
    /\ \A s \in EvalSessions :
           ev[s].pc # "idle" =>
               EvaluateAloneReaches(evaluate_entry(EvalIdle, ev[s].initial_prompt), ev[s])
    /\ \A s \in RouteSessions :
           rt[s].pc # "idle" =>
               RouteAloneReaches(route_entry(RouteIdle, rt[s].user_input), rt[s])

\* both calls have returned, from different prompts, after different
\* numbers of iterations, with different answers
C14_Witness ==
    /\ Len(ev) = 2
    /\ ev[1].pc = "returned" /\ ev[2].pc = "returned"
    /\ ev[1].initial_prompt # ev[2].initial_prompt
    /\ ev[1].iterations = 2 /\ ev[2].iterations = 1
    /\ ev[1].final_response # ev[2].final_response
    /\ evaluator.worker_agent.kind = "RAG"

(***************************************************************************)
(* C19: a route call, whatever its input and whether it dispatches or      *)
(* falls back, leaves the registry as it was: the same entries in the same *)
(* order with the same names, descriptions and handlers. Hence two routes  *)
(* of the same input, with deterministic handlers, select the same entry   *)
(* and get the same answer from it.                                        *)
(***************************************************************************)
C19_RegistryUnchanged ==
    /\ [][router' = router]_vars
    /\ [](\A s, t \in RouteSessions :
              (LoopDone(rt[s]) /\ LoopDone(rt[t]) /\ rt[s].user_input = rt[t].user_input) =>
                  /\ rt[s].best_agent = rt[t].best_agent
                  /\ (Terminal(rt[s]) /\ Terminal(rt[t])) =>
                         /\ rt[s].invoked = rt[t].invoked
                         /\ rt[s].pc = rt[t].pc
                         /\ rt[s].result = rt[t].result)

\* the same input routed twice over two entries, the second selected and
\* called both times
C19_Witness ==
    /\ Len(rt) = 2
    /\ Len(router.agents) = 2
    /\ rt[1].pc = "returned" /\ rt[2].pc = "returned"
    /\ rt[1].user_input = rt[2].user_input
    /\ rt[1].best_agent = 2
    /\ Len(rt[2].invoked) = 1

====
